---- MODULE Spec2Model ----
(***************************************************************************)
(* queries.js: the Query Runner.  runQueries connects to MongoDB, issues a *)
(* fixed sequence of awaited driver calls against the books collection,    *)
(* prints each result, and closes the connection in a finally block.       *)
(*                                                                         *)
(* An action of this module is the code that runs between two awaits: the  *)
(* awaited promise settles, the continuation prints the result and issues  *)
(* the next driver call.  The database side of a driver call (what find,   *)
(* sort, skip, limit, updateOne, deleteOne, aggregate and createIndex do   *)
(* with the arguments the script passes) is modelled by the operators      *)
(* below, as MongoDB documents it.                                         *)
(*                                                                         *)
(* A field of a document is <<>> when the document lacks it and <<v>> when *)
(* it holds v.  Prices are in cents (15.99 is 1599).                       *)
(***************************************************************************)
EXTENDS Integers, Sequences, FiniteSets

VARIABLES
    pc,         \* the driver call runQueries is awaiting; "init" before, "done" after
    docs,       \* the books collection, in natural order
    indexes,    \* the indexes of the books collection, in creation order
    logged,     \* the last result the script printed: [label, value]
    inflight,   \* the driver calls issued and not yet settled
    issued,     \* the driver calls issued in this run, in order
    closeCalls, \* how often client.close() was invoked in this run
    caught,     \* what the catch block caught in this run: "none" or the error
    failedAt,   \* the driver call whose rejection was caught, "none" if none
    rejected,   \* TRUE when runQueries itself rejected (close() threw)
    run,        \* the number of the current run of the script
    docs0,      \* the collection when this run started
    indexes0    \* the indexes when this run started

vars == <<pc, docs, indexes, logged, inflight, issued, closeCalls, caught,
          failedAt, rejected, run, docs0, indexes0>>

----------------------------------------------------------------------------
(* Bounds of the model *)

\* Short collections hold up to MaxDocs documents, drawn freely from Catalog.
MaxDocs == 2
\* Long collections hold up to MaxLong documents, read cyclically off Shelf.
MaxLong == 12
\* The script is run up to MaxRuns times against the same collection.
MaxRuns == 2

----------------------------------------------------------------------------
(* Literals of the script *)

page == 2
pageSize == 5
\* Faulty variant of skip: the page number taken as the number of pages to skip.
skipWholePages == page * pageSize
skip == (page - 1) * pageSize
sortLimit == 5
newPrice == 1599
genreLiteral == "Fiction"
yearLiteral == 2000
authorLiteral == "George Orwell"
updateTitle == "1984"
deleteTitle == "Moby Dick"
stockYearLiteral == 2010

----------------------------------------------------------------------------
(* Book documents *)

Book(t, a, g, y, p, s) ==
    [title |-> t, author |-> a, genre |-> g, published_year |-> y,
     price |-> p, in_stock |-> s]

\* The documents a collection is seeded with.  The two with a title only
\* (and a price) are the seed of the end-to-end scenario.
Catalog ==
    { Book(<<"1984">>, <<"George Orwell">>, <<"Fiction">>, <<1949>>, <<1000>>, <<TRUE>>),
      Book(<<"1984">>, <<>>, <<>>, <<>>, <<1000>>, <<>>),
      Book(<<"Moby Dick">>, <<>>, <<>>, <<>>, <<>>, <<>>),
      Book(<<"Moby Dick">>, <<"Herman Melville">>, <<"Adventure">>, <<1851>>, <<1250>>, <<FALSE>>),
      Book(<<"The Martian">>, <<"Andy Weir">>, <<"Fiction">>, <<2011>>, <<1599>>, <<TRUE>>) }

Shelf ==
    << Book(<<"It">>, <<"Stephen King">>, <<"Horror">>, <<1987>>, <<2000>>, <<TRUE>>),
       Book(<<"1984">>, <<"George Orwell">>, <<"Fiction">>, <<1949>>, <<1000>>, <<TRUE>>),
       Book(<<"Misery">>, <<"Stephen King">>, <<"Horror">>, <<1990>>, <<1250>>, <<FALSE>>),
       Book(<<"Moby Dick">>, <<"Herman Melville">>, <<"Adventure">>, <<1851>>, <<1250>>, <<FALSE>>),
       Book(<<"Untitled">>, <<>>, <<>>, <<>>, <<>>, <<>>),
       Book(<<"Neuromancer">>, <<"William Gibson">>, <<"Fiction">>, <<1980>>, <<899>>, <<TRUE>>),
       Book(<<"The Martian">>, <<"Andy Weir">>, <<"Fiction">>, <<2011>>, <<1599>>, <<TRUE>>) >>

ShortCollections ==
    UNION { [1..n -> Catalog] : n \in 0..MaxDocs }

LongCollection(n, off) ==
    [i \in 1..n |-> Shelf[((i + off - 1) % Len(Shelf)) + 1]]

LongCollections ==
    { LongCollection(n, off) : n \in (MaxDocs + 1)..MaxLong, off \in 0..(Len(Shelf) - 1) }

----------------------------------------------------------------------------
(* The database side of the driver calls *)

\* The filters the script passes to find.
GenreFilter(d) == d.genre = <<genreLiteral>>
YearFilter(d) == d.published_year # <<>> /\ d.published_year[1] > yearLiteral
AuthorFilter(d) == d.author = <<authorLiteral>>
StockFilter(d) ==
    /\ d.in_stock = <<TRUE>>
    /\ d.published_year # <<>> /\ d.published_year[1] > stockYearLiteral
TitleFilter(d) == d.title = <<updateTitle>>

\* find(filter).toArray(): the matching documents, in natural order.
FindByGenre(s) == SelectSeq(s, GenreFilter)
FindByYear(s) == SelectSeq(s, YearFilter)
FindByAuthor(s) == SelectSeq(s, AuthorFilter)
FindInStock(s) == SelectSeq(s, StockFilter)

\* The position of the first document of s titled t, 0 when there is none.
FirstTitled(s, t) ==
    IF \E i \in 1..Len(s) : s[i].title = <<t>>
    THEN CHOOSE i \in 1..Len(s) :
           s[i].title = <<t>> /\ \A j \in 1..(i - 1) : s[j].title # <<t>>
    ELSE 0

\* findOne({title: "1984"}): the first matching document as <<d>>, <<>>
\* (null) when there is none.
FindOne(s) ==
    IF FirstTitled(s, updateTitle) = 0 THEN <<>>
    ELSE <<s[FirstTitled(s, updateTitle)]>>

\* Faulty variant of UpdateOne: updateMany, every matching document gets the price.
UpdateMany(s) ==
    [i \in 1..Len(s) |->
        IF s[i].title = <<updateTitle>> THEN [s[i] EXCEPT !.price = <<newPrice>>]
        ELSE s[i]]

\* updateOne({title: "1984"}, {$set: {price: 15.99}}): the first matching
\* document gets the price, every other field and document is kept; a
\* collection without a match is left as it is and the call resolves.
UpdateOne(s) ==
    IF FirstTitled(s, updateTitle) = 0 THEN s
    ELSE [s EXCEPT ![FirstTitled(s, updateTitle)].price = <<newPrice>>]

RemoveAt(s, i) == SubSeq(s, 1, i - 1) \o SubSeq(s, i + 1, Len(s))

\* Faulty variant of DeleteOne: the title of the filter misspelt.
DeleteOneMisspelt(s) ==
    IF FirstTitled(s, "Moby-Dick") = 0 THEN s
    ELSE RemoveAt(s, FirstTitled(s, "Moby-Dick"))

\* deleteOne({title: "Moby Dick"}): the first matching document is removed;
\* a collection without a match is left as it is and the call resolves.
DeleteOne(s) ==
    IF FirstTitled(s, deleteTitle) = 0 THEN s
    ELSE RemoveAt(s, FirstTitled(s, deleteTitle))

\* The projection {_id: 0, title: 1, author: 1, price: 1}.
Project(s) ==
    [i \in 1..Len(s) |-> [title |-> s[i].title, author |-> s[i].author,
                          price |-> s[i].price]]

\* The order of sort keys: a missing value sorts before every number.
KeyLess(a, b) ==
    \/ a = <<>> /\ b # <<>>
    \/ a # <<>> /\ b # <<>> /\ a[1] < b[1]

\* Faulty variant of Before: the direction of the sort ignored.
BeforeAscending(dir, a, b) == KeyLess(a, b)

\* Whether key a comes strictly before key b under sort direction dir.
Before(dir, a, b) == IF dir = 1 THEN KeyLess(a, b) ELSE KeyLess(b, a)

\* find().sort({price: dir}).limit(k).toArray(): the results the server may
\* return.  The order of documents with equal prices is not specified, so
\* every order of ties is a possible result.
RECURSIVE SortLimit(_, _, _)
SortLimit(s, dir, k) ==
    IF k = 0 \/ s = <<>> THEN {<<>>}
    ELSE LET heads == {i \in 1..Len(s) :
                         \A j \in 1..Len(s) : ~Before(dir, s[j].price, s[i].price)}
             firsts == {i \in heads : \A j \in heads : s[j] = s[i] => i <= j}
         IN  UNION {{<<s[i]>> \o r : r \in SortLimit(RemoveAt(s, i), dir, k - 1)} :
                    i \in firsts}

\* find().skip(n).limit(k).toArray()
SkipLimit(s, n, k) ==
    SubSeq(s, n + 1, IF Len(s) < n + k THEN Len(s) ELSE n + k)

\* The paginated read of step 10.
PageRead(s) == SkipLimit(s, skip, pageSize)

RECURSIVE SumPrice(_)
SumPrice(s) ==
    IF s = <<>> THEN 0
    ELSE (IF Head(s).price = <<>> THEN 0 ELSE Head(s).price[1]) + SumPrice(Tail(s))

\* [{$group: {_id: "$genre", averagePrice: {$avg: "$price"}}}]: one group
\* per genre; the average is kept as the sum and the number of the prices
\* it is taken over (documents without a price are not counted).  $group
\* returns its groups in no specified order: the result is a set.
GenreGroup(s, g) == SelectSeq(s, LAMBDA d : d.genre = g)
AveragePriceByGenre(s) ==
    { [_id |-> g,
       sum |-> SumPrice(GenreGroup(s, g)),
       n |-> Len(SelectSeq(GenreGroup(s, g), LAMBDA d : d.price # <<>>))] :
      g \in {s[i].genre : i \in 1..Len(s)} }

\* [{$group: {_id: "$author", bookCount: {$sum: 1}}}, {$sort: {bookCount: -1}},
\*  {$limit: 1}]: the results the server may return, one group with the
\* highest count (any of them when several authors tie), none when the
\* collection is empty.
AuthorGroups(s) ==
    { [_id |-> a, bookCount |-> Len(SelectSeq(s, LAMBDA d : d.author = a))] :
      a \in {s[i].author : i \in 1..Len(s)} }
TopAuthor(s) ==
    IF s = <<>> THEN {<<>>}
    ELSE { <<g>> : g \in {h \in AuthorGroups(s) :
                            \A o \in AuthorGroups(s) : o.bookCount <= h.bookCount} }

\* Faulty variant of Decade: $round in the place of $floor.
DecadeRounded(y) == IF y = <<>> THEN <<>> ELSE <<((y[1] + 5) \div 10) * 10>>

\* {$multiply: [{$floor: {$divide: ["$published_year", 10]}}, 10]}; a
\* document without published_year gets null.
Decade(y) == IF y = <<>> THEN <<>> ELSE <<(y[1] \div 10) * 10>>

DecadeGroups(s) ==
    { [_id |-> d, count |-> Len(SelectSeq(s, LAMBDA b : Decade(b.published_year) = d))] :
      d \in {Decade(s[i].published_year) : i \in 1..Len(s)} }

\* {$sort: {_id: 1}} over groups, whose _id are distinct.
RECURSIVE SortGroups(_)
SortGroups(G) ==
    IF G = {} THEN <<>>
    ELSE LET m == CHOOSE g \in G : \A h \in G : ~KeyLess(h._id, g._id)
         IN  <<m>> \o SortGroups(G \ {m})

\* The decade pipeline of step 13.
BooksByDecade(s) == SortGroups(DecadeGroups(s))

----------------------------------------------------------------------------
(* Indexes *)

IdIndex == [name |-> "_id_", key |-> <<[field |-> "_id", dir |-> 1]>>]
titleKey == <<[field |-> "title", dir |-> 1]>>
authorYearKey ==
    <<[field |-> "author", dir |-> 1], [field |-> "published_year", dir |-> 1]>>

\* The name createIndex gives an index when the caller passes none.
DefaultName(key) ==
    CASE key = titleKey -> "title_1"
      [] key = authorYearKey -> "author_1_published_year_1"
      [] OTHER -> "generated"

\* createIndex(key): an index with this key and the default name exists
\* already: nothing to do.  One with this key and another name, or this
\* name and another key: the server rejects the call.
CreateIndexError(ix, key) ==
    IF \E i \in 1..Len(ix) : ix[i].key = key /\ ix[i].name # DefaultName(key)
    THEN "IndexOptionsConflict"
    ELSE IF \E i \in 1..Len(ix) : ix[i].key # key /\ ix[i].name = DefaultName(key)
    THEN "IndexKeySpecsConflict"
    ELSE "none"

\* Faulty variant of CreateIndex: an index is added whether or not one exists.
CreateIndexAgain(ix, key) == Append(ix, [name |-> DefaultName(key), key |-> key])

CreateIndex(ix, key) ==
    IF \E i \in 1..Len(ix) : ix[i].key = key THEN ix
    ELSE Append(ix, [name |-> DefaultName(key), key |-> key])

\* find({title: "1984"}).explain("executionStats").executionStats
Explain(s, ix) ==
    LET n == Len(SelectSeq(s, TitleFilter))
        indexed == \E i \in 1..Len(ix) : ix[i].key[1].field = "title"
    IN  [nReturned |-> n,
         stage |-> IF indexed THEN "IXSCAN" ELSE "COLLSCAN",
         totalDocsExamined |-> IF indexed THEN n ELSE Len(s)]

\* The indexes a books collection may have before a run: the default one,
\* those an earlier run of the script left, or one on title created by
\* hand under a name of its own.
InitialIndexes ==
    { <<IdIndex>>,
      <<IdIndex, [name |-> "title_1", key |-> titleKey]>>,
      <<IdIndex, [name |-> "title_1", key |-> titleKey],
        [name |-> "author_1_published_year_1", key |-> authorYearKey]>>,
      <<IdIndex, [name |-> "by_title", key |-> titleKey]>> }

----------------------------------------------------------------------------
(* runQueries *)

\* The driver calls of the try block, in the order of the script.
ProgramOrder ==
    << "connect", "findGenre", "findYear", "findAuthor", "updateOne", "findOne",
       "deleteOne", "findInStock", "findProjected", "sortAsc", "sortDesc",
       "pageRead", "avgByGenre", "topAuthor", "byDecade", "indexTitle",
       "indexAuthorYear", "explain" >>

TryCalls == {ProgramOrder[i] : i \in 1..Len(ProgramOrder)}

Result(l, v) == [label |-> l, value |-> v]

Init ==
    /\ pc = "init"
    /\ docs \in ShortCollections \cup LongCollections
    /\ indexes \in InitialIndexes
    /\ logged = Result("none", <<>>)
    /\ inflight = {}
    /\ issued = <<>>
    /\ closeCalls = 0
    /\ caught = "none"
    /\ failedAt = "none"
    /\ rejected = FALSE
    /\ run = 1
    /\ docs0 = docs
    /\ indexes0 = indexes

\* The awaited call op resolves and the continuation issues call nxt.
Settle(op, nxt) ==
    /\ pc = op
    /\ pc' = nxt
    /\ inflight' = (inflight \ {op}) \cup {nxt}
    /\ issued' = Append(issued, nxt)
    /\ UNCHANGED <<closeCalls, caught, failedAt, rejected, run, docs0, indexes0>>

\* The finally block: client.close() is invoked and awaited.
Finally(op) ==
    /\ pc' = "close"
    /\ inflight' = (inflight \ {op}) \cup {"close"}
    /\ issued' = Append(issued, "close")
    /\ closeCalls' = closeCalls + 1

\* new MongoClient(uri); await client.connect()
Start ==
    /\ pc = "init"
    /\ pc' = "connect"
    /\ inflight' = {"connect"}
    /\ issued' = <<"connect">>
    /\ UNCHANGED <<docs, indexes, logged, closeCalls, caught, failedAt, rejected,
                   run, docs0, indexes0>>

Connected ==
    /\ Settle("connect", "findGenre")
    /\ logged' = Result("connected", <<>>)
    /\ UNCHANGED <<docs, indexes>>

FindGenre ==
    /\ Settle("findGenre", "findYear")
    /\ logged' = Result("1", FindByGenre(docs))
    /\ UNCHANGED <<docs, indexes>>

FindYear ==
    /\ Settle("findYear", "findAuthor")
    /\ logged' = Result("2", FindByYear(docs))
    /\ UNCHANGED <<docs, indexes>>

\* Faulty variant of FindAuthor: updateOne is not awaited, findOne is issued with
\* the update still in flight.
FindAuthorNoAwait ==
    /\ pc = "findAuthor"
    /\ pc' = "findOne"
    /\ inflight' = (inflight \ {"findAuthor"}) \cup {"updateOne", "findOne"}
    /\ issued' = issued \o <<"updateOne", "findOne">>
    /\ logged' = Result("3", FindByAuthor(docs))
    /\ UNCHANGED <<docs, indexes, closeCalls, caught, failedAt, rejected, run,
                   docs0, indexes0>>

FindAuthor ==
    /\ Settle("findAuthor", "updateOne")
    /\ logged' = Result("3", FindByAuthor(docs))
    /\ UNCHANGED <<docs, indexes>>

\* updateOne resolves; its result is not printed; findOne is issued.
UpdatePrice ==
    /\ Settle("updateOne", "findOne")
    /\ docs' = UpdateOne(docs)
    /\ UNCHANGED <<indexes, logged>>

ReadBack ==
    /\ Settle("findOne", "deleteOne")
    /\ logged' = Result("4", FindOne(docs))
    /\ UNCHANGED <<docs, indexes>>

\* Faulty variant of DeleteBook: the script looks at deletedCount before it prints.
DeleteBookCounted ==
    /\ Settle("deleteOne", "findInStock")
    /\ docs' = DeleteOne(docs)
    /\ logged' = Result("5", IF docs' = docs THEN "No book deleted"
                              ELSE "Deleted 'Moby Dick' successfully")
    /\ UNCHANGED indexes

\* deleteOne resolves; the script prints that the book was deleted without
\* looking at deletedCount.
DeleteBook ==
    /\ Settle("deleteOne", "findInStock")
    /\ docs' = DeleteOne(docs)
    /\ logged' = Result("5", "Deleted 'Moby Dick' successfully")
    /\ UNCHANGED indexes

FindStock ==
    /\ Settle("findInStock", "findProjected")
    /\ logged' = Result("6", FindInStock(docs))
    /\ UNCHANGED <<docs, indexes>>

FindProjected ==
    /\ Settle("findProjected", "sortAsc")
    /\ logged' = Result("7", Project(docs))
    /\ UNCHANGED <<docs, indexes>>

SortAscending ==
    /\ Settle("sortAsc", "sortDesc")
    /\ \E r \in SortLimit(docs, 1, sortLimit) : logged' = Result("8", r)
    /\ UNCHANGED <<docs, indexes>>

SortDescending ==
    /\ Settle("sortDesc", "pageRead")
    /\ \E r \in SortLimit(docs, -1, sortLimit) : logged' = Result("9", r)
    /\ UNCHANGED <<docs, indexes>>

Paginate ==
    /\ Settle("pageRead", "avgByGenre")
    /\ logged' = Result("10", PageRead(docs))
    /\ UNCHANGED <<docs, indexes>>

AverageByGenre ==
    /\ Settle("avgByGenre", "topAuthor")
    /\ logged' = Result("11", AveragePriceByGenre(docs))
    /\ UNCHANGED <<docs, indexes>>

MostBooks ==
    /\ Settle("topAuthor", "byDecade")
    /\ \E r \in TopAuthor(docs) : logged' = Result("12", r)
    /\ UNCHANGED <<docs, indexes>>

ByDecade ==
    /\ Settle("byDecade", "indexTitle")
    /\ logged' = Result("13", BooksByDecade(docs))
    /\ UNCHANGED <<docs, indexes>>

\* createIndex resolves; nothing is printed.
IndexTitle ==
    /\ CreateIndexError(indexes, titleKey) = "none"
    /\ Settle("indexTitle", "indexAuthorYear")
    /\ indexes' = CreateIndex(indexes, titleKey)
    /\ UNCHANGED <<docs, logged>>

IndexAuthorYear ==
    /\ CreateIndexError(indexes, authorYearKey) = "none"
    /\ Settle("indexAuthorYear", "explain")
    /\ indexes' = CreateIndex(indexes, authorYearKey)
    /\ UNCHANGED <<docs, logged>>

\* explain resolves, its statistics are printed, the try block ends and
\* the finally block runs.
ExplainQuery ==
    /\ pc = "explain"
    /\ logged' = Result("16", Explain(docs, indexes))
    /\ Finally("explain")
    /\ UNCHANGED <<docs, indexes, caught, failedAt, rejected, run, docs0, indexes0>>

\* The errors the awaited call op may reject with: the connection may fail
\* at any call; createIndex is rejected on a conflicting index.
Rejections(op, ix) ==
    {"network"}
    \cup (IF op = "indexTitle" THEN {CreateIndexError(ix, titleKey)} ELSE {})
    \cup (IF op = "indexAuthorYear" THEN {CreateIndexError(ix, authorYearKey)} ELSE {})

\* What a write that failed on the connection may have left behind: the
\* server applied it or it did not.
DocsAfterFailure(op, s) ==
    IF op = "updateOne" THEN {s, UpdateOne(s)}
    ELSE IF op = "deleteOne" THEN {s, DeleteOne(s)}
    ELSE {s}

IndexesAfterFailure(op, ix) ==
    IF op = "indexTitle" /\ CreateIndexError(ix, titleKey) = "none"
    THEN {ix, CreateIndex(ix, titleKey)}
    ELSE IF op = "indexAuthorYear" /\ CreateIndexError(ix, authorYearKey) = "none"
    THEN {ix, CreateIndex(ix, authorYearKey)}
    ELSE {ix}

\* Faulty variant of Throw: close() at the end of the try block, not in a finally
\* block; after an error it is never called.
ThrowWithoutClose ==
    /\ pc \in TryCalls
    /\ caught' = "network"
    /\ logged' = Result("Error", "network")
    /\ failedAt' = pc
    /\ pc' = "done"
    /\ inflight' = inflight \ {pc}
    /\ UNCHANGED <<docs, indexes, issued, closeCalls, rejected, run, docs0, indexes0>>

\* Faulty variant of Throw: a catch around each call, which logs the error and
\* goes on with the next call of the script.
ThrowAndContinue ==
    /\ pc \in TryCalls \ {"explain"}
    /\ caught' = "network"
    /\ logged' = Result("Error", "network")
    /\ failedAt' = pc
    /\ \E k \in 1..(Len(ProgramOrder) - 1) :
         /\ ProgramOrder[k] = pc
         /\ pc' = ProgramOrder[k + 1]
         /\ inflight' = (inflight \ {pc}) \cup {ProgramOrder[k + 1]}
         /\ issued' = Append(issued, ProgramOrder[k + 1])
    /\ UNCHANGED <<docs, indexes, closeCalls, rejected, run, docs0, indexes0>>

\* The awaited call of the try block rejects: the catch block logs the
\* error and the finally block runs.
Throw ==
    /\ pc \in TryCalls
    /\ \E e \in Rejections(pc, indexes) \ {"none"} :
         /\ caught' = e
         /\ logged' = Result("Error", e)
         /\ IF e = "network"
            THEN /\ docs' \in DocsAfterFailure(pc, docs)
                 /\ indexes' \in IndexesAfterFailure(pc, indexes)
            ELSE UNCHANGED <<docs, indexes>>
    /\ failedAt' = pc
    /\ Finally(pc)
    /\ UNCHANGED <<rejected, run, docs0, indexes0>>

\* client.close() resolves and the closing line is printed.
Closed ==
    /\ pc = "close"
    /\ pc' = "done"
    /\ inflight' = inflight \ {"close"}
    /\ logged' = Result("closed", <<>>)
    /\ UNCHANGED <<docs, indexes, issued, closeCalls, caught, failedAt, rejected,
                   run, docs0, indexes0>>

\* client.close() rejects: runQueries rejects and the caller's
\* .catch(console.error) prints the error.
CloseThrows ==
    /\ pc = "close"
    /\ pc' = "done"
    /\ inflight' = inflight \ {"close"}
    /\ rejected' = TRUE
    /\ logged' = Result("Error", "close")
    /\ UNCHANGED <<docs, indexes, issued, closeCalls, caught, failedAt, run,
                   docs0, indexes0>>

\* The script is run again against the same database.
Rerun ==
    /\ pc = "done"
    /\ run < MaxRuns
    /\ pc' = "init"
    /\ run' = run + 1
    /\ logged' = Result("none", <<>>)
    /\ inflight' = {}
    /\ issued' = <<>>
    /\ closeCalls' = 0
    /\ caught' = "none"
    /\ failedAt' = "none"
    /\ rejected' = FALSE
    /\ docs0' = docs
    /\ indexes0' = indexes
    /\ UNCHANGED <<docs, indexes>>

Next ==
    \/ Start
    \/ Connected
    \/ FindGenre
    \/ FindYear
    \/ FindAuthor
    \/ UpdatePrice
    \/ ReadBack
    \/ DeleteBook
    \/ FindStock
    \/ FindProjected
    \/ SortAscending
    \/ SortDescending
    \/ Paginate
    \/ AverageByGenre
    \/ MostBooks
    \/ ByDecade
    \/ IndexTitle
    \/ IndexAuthorYear
    \/ ExplainQuery
    \/ Throw
    \/ Closed
    \/ CloseThrows
    \/ Rerun

Spec == Init /\ [][Next]_vars

\* Every awaited call settles: the driver resolves it or, at the latest on
\* its timeout, rejects it, and the continuation of runQueries then runs.
\* Nothing obliges anyone to run the script again.  Whether a run ends does
\* not depend on the documents: the short collections are enough here.
ShortInit == Init /\ Len(docs) <= MaxDocs

FairSpec ==
    /\ ShortInit
    /\ [][Next]_vars
    /\ WF_vars(pc # "done" /\ Next)

----------------------------------------------------------------------------
(* Properties *)

Min(a, b) == IF a < b THEN a ELSE b

\* The calls issued so far are the first k calls of the script, followed
\* by close() when withClose.
IssuedIs(k, withClose) ==
    issued = SubSeq(ProgramOrder, 1, k) \o (IF withClose THEN <<"close">> ELSE <<>>)

PositionOf(op) == CHOOSE k \in 1..Len(ProgramOrder) : ProgramOrder[k] = op

HasTitle(s, t) == \E i \in 1..Len(s) : s[i].title = <<t>>

\* C1 (safety part): close() is invoked at most once in a run, exactly once
\* by the time the run is over, and it is the last call the run issues.
C1_CloseSafety ==
    /\ closeCalls <= 1
    /\ pc \in {"close", "done"} <=> closeCalls = 1
    /\ \A i \in 1..Len(issued) : issued[i] = "close" => i = Len(issued)
    /\ Len(SelectSeq(issued, LAMBDA o : o = "close")) = closeCalls

\* C1: in every run, whether connect fails, a step throws or every step
\* succeeds, client.close() is eventually invoked, exactly once, and no
\* call on the books collection is issued after it.
C1_ClosedExactlyOnce ==
    /\ []C1_CloseSafety
    /\ (pc = "connect") ~> (closeCalls = 1 /\ issued[Len(issued)] = "close")

\* A run whose connect failed has closed the client without touching books.
C1_Witness ==
    /\ pc = "done"
    /\ failedAt = "connect"
    /\ closeCalls = 1
    /\ issued = <<"connect", "close">>

\* C2: when the call at position k throws, the calls issued in the run are
\* exactly the first k calls and then close(): nothing after position k is
\* issued, the one catch block has the error and has logged it.
C2_AbortsAtFailure ==
    failedAt # "none" =>
        /\ failedAt \in TryCalls
        /\ IssuedIs(PositionOf(failedAt), TRUE)
        /\ caught # "none"
        /\ closeCalls = 1
        /\ pc \in {"close", "done"}
        /\ pc = "close" => logged = Result("Error", caught)

\* The delete step threw: the run went straight to close().
C2_Witness ==
    /\ failedAt = "deleteOne"
    /\ pc = "close"
    /\ issued[Len(issued) - 1] = "deleteOne"

\* C3: at most one call is in flight, it is the one runQueries awaits, and
\* the calls are issued in the order of the script; the read-back and the
\* delete are issued with the update applied, the explain with both
\* indexes in place.
C3_OneAtATimeInOrder ==
    /\ Cardinality(inflight) <= 1
    /\ inflight = (IF pc \in {"init", "done"} THEN {} ELSE {pc})
    /\ \E k \in 0..Len(ProgramOrder) : IssuedIs(k, FALSE) \/ IssuedIs(k, TRUE)
    /\ pc \in TryCalls => issued[Len(issued)] = pc /\ IssuedIs(PositionOf(pc), FALSE)
    /\ pc \in {"findOne", "deleteOne"} /\ HasTitle(docs0, "1984") =>
           \E i \in 1..Len(docs) : docs[i].title = <<"1984">> /\ docs[i].price = <<1599>>
    /\ pc = "explain" =>
           /\ \E i \in 1..Len(indexes) :
                indexes[i].key = <<[field |-> "title", dir |-> 1]>>
           /\ \E i \in 1..Len(indexes) :
                indexes[i].key = <<[field |-> "author", dir |-> 1],
                                   [field |-> "published_year", dir |-> 1]>>

\* The explain query is in flight, alone, in a collection that had neither
\* index before the run.
C3_Witness ==
    /\ pc = "explain"
    /\ inflight = {"explain"}
    /\ Len(indexes0) = 1
    /\ Len(indexes) = 3

\* The seed of the end-to-end scenario, in either order.
Seed1984 == Book(<<"1984">>, <<>>, <<>>, <<>>, <<1000>>, <<>>)
SeedMobyDick == Book(<<"Moby Dick">>, <<>>, <<>>, <<>>, <<>>, <<>>)
Seeds == { <<Seed1984, SeedMobyDick>>, <<SeedMobyDick, Seed1984>> }

\* C4: from the seed {1984 at 10.00, Moby Dick}, the read-back of step 4
\* prints 1984 at 15.99, and after the full sequence without a failure the
\* collection holds 1984 at 15.99 and no Moby Dick.
C4_EndToEnd ==
    docs0 \in Seeds =>
        /\ logged.label = "4" =>
               logged.value = <<[Seed1984 EXCEPT !.price = <<1599>>]>>
        /\ pc \in {"close", "done"} /\ caught = "none" =>
               /\ docs = <<[Seed1984 EXCEPT !.price = <<1599>>]>>
               /\ ~HasTitle(docs, "Moby Dick")

\* The full sequence has run on the seed without a failure.
C4_Witness ==
    /\ docs0 \in Seeds
    /\ pc = "done"
    /\ caught = "none"
    /\ ~rejected
    /\ Len(docs) = 1

\* The collection s with the price of its document at position i set to
\* 15.99 (i = 0: s itself), and with its document at position j removed
\* (j = 0: s itself).
SetPriceAt(s, i) == IF i = 0 THEN s ELSE [s EXCEPT ![i].price = <<1599>>]
DropAt(s, j) ==
    IF j = 0 THEN s
    ELSE [k \in 1..(Len(s) - 1) |-> IF k < j THEN s[k] ELSE s[k + 1]]

C5_FrameState ==
    /\ \E i \in {0} \cup {k \in 1..Len(docs0) : docs0[k].title = <<"1984">>} :
       \E j \in {0} \cup {k \in 1..Len(docs0) : docs0[k].title = <<"Moby Dick">>} :
           docs = DropAt(SetPriceAt(docs0, i), j)
    /\ Len(indexes0) <= Len(indexes) /\ Len(indexes) <= Len(indexes0) + 2
    /\ SubSeq(indexes, 1, Len(indexes0)) = indexes0
    /\ \A k \in (Len(indexes0) + 1)..Len(indexes) :
           indexes[k].key \in
               { <<[field |-> "title", dir |-> 1]>>,
                 <<[field |-> "author", dir |-> 1],
                   [field |-> "published_year", dir |-> 1]>> }

\* C5: in every state of a run, complete or aborted, the collection is the
\* one the run started with, but for the price of at most one document
\* titled "1984", set to 15.99, and at most one document titled "Moby Dick",
\* removed; the indexes are those the run started with and at most the two
\* the script creates; only the update and delete calls change a document
\* and only the createIndex calls change the indexes.
C5_Frame ==
    /\ []C5_FrameState
    /\ [][pc \notin {"updateOne", "deleteOne"} => docs' = docs]_vars
    /\ [][pc \notin {"indexTitle", "indexAuthorYear"} => indexes' = indexes]_vars

\* A complete run on a collection with two documents titled "1984": one of
\* them has the new price, the other has kept its own.
C5_Witness ==
    /\ pc = "done"
    /\ caught = "none"
    /\ Len(docs0) = 2
    /\ docs0[1].title = <<"1984">> /\ docs0[2].title = <<"1984">>
    /\ docs[1].price = <<1599>> /\ docs[2].price = <<1000>>
    /\ Len(indexes) = Len(indexes0) + 2

\* C6: the paginated read of step 10 skips 5 documents and returns at most
\* 5: of n documents in natural order it returns those at positions
\* 6..min(n, 10), none when n <= 5.
C6_Pagination ==
    logged.label = "10" =>
        LET n == Len(docs)
            r == logged.value
        IN  /\ Len(r) = (IF n <= 5 THEN 0 ELSE Min(n, 10) - 5)
            /\ Len(r) <= 5
            /\ \A i \in 1..Len(r) : r[i] = docs[5 + i]

\* The second page of a collection of more than ten documents.
C6_Witness ==
    /\ logged.label = "10"
    /\ Len(docs) > 10
    /\ Len(logged.value) = 5
    /\ logged.value[5] = docs[10]
    /\ logged.value[5] # docs[11]

\* The rank of a price in a sort: a missing price sorts before every number.
Rank(p) == IF p = <<>> THEN -1 ELSE p[1]
Occurrences(s, d) == Cardinality({i \in 1..Len(s) : s[i] = d})
Below(s, v) == Cardinality({i \in 1..Len(s) : Rank(s[i].price) < v})
Above(s, v) == Cardinality({i \in 1..Len(s) : Rank(s[i].price) > v})

\* C7: the ascending read returns min(5, n) documents of the collection in
\* non-decreasing order of price, and they are the lowest-priced ones; the
\* descending read returns min(5, n) in non-increasing order, the
\* highest-priced ones.
C7_Sorted ==
    /\ logged.label = "8" =>
        LET r == logged.value
        IN  /\ Len(r) = Min(5, Len(docs))
            /\ \A i \in 1..Len(r) : \A j \in i..Len(r) :
                   Rank(r[i].price) <= Rank(r[j].price)
            /\ \A i \in 1..Len(r) : Occurrences(r, r[i]) <= Occurrences(docs, r[i])
            /\ \A j \in 1..Len(docs) :
                   Below(r, Rank(docs[j].price)) = Min(5, Below(docs, Rank(docs[j].price)))
    /\ logged.label = "9" =>
        LET r == logged.value
        IN  /\ Len(r) = Min(5, Len(docs))
            /\ \A i \in 1..Len(r) : \A j \in i..Len(r) :
                   Rank(r[i].price) >= Rank(r[j].price)
            /\ \A i \in 1..Len(r) : Occurrences(r, r[i]) <= Occurrences(docs, r[i])
            /\ \A j \in 1..Len(docs) :
                   Above(r, Rank(docs[j].price)) = Min(5, Above(docs, Rank(docs[j].price)))

\* The descending read of a collection of more than five documents, two of
\* the returned ones at the same price.
C7_Witness ==
    /\ logged.label = "9"
    /\ Len(docs) > 5
    /\ Len(logged.value) = 5
    /\ \E i \in 1..4 : /\ logged.value[i].price = logged.value[i + 1].price
                       /\ logged.value[i] # logged.value[i + 1]
    /\ \E j \in 1..Len(docs) : docs[j].price = <<>>

RECURSIVE SumCounts(_)
SumCounts(r) == IF r = <<>> THEN 0 ELSE Head(r).count + SumCounts(Tail(r))

\* C8: in the result of step 13 every document with a published_year y is
\* counted in exactly one bucket d, a multiple of 10 with d <= y < d + 10
\* (1987 in 1980), the documents without a year in the bucket null; the
\* counts sum to the number of documents and the buckets are in ascending
\* order.
C8_Decades ==
    logged.label = "13" =>
        LET r == logged.value
            years(d) == {j \in 1..Len(docs) :
                           /\ docs[j].published_year # <<>>
                           /\ d <= docs[j].published_year[1]
                           /\ docs[j].published_year[1] < d + 10}
            noYear == {j \in 1..Len(docs) : docs[j].published_year = <<>>}
        IN  /\ \A g \in 1..Len(r) :
                   IF r[g]._id = <<>> THEN r[g].count = Cardinality(noYear)
                   ELSE /\ r[g]._id[1] % 10 = 0
                        /\ r[g].count = Cardinality(years(r[g]._id[1]))
            /\ \A j \in 1..Len(docs) :
                   Cardinality({g \in 1..Len(r) :
                       IF docs[j].published_year = <<>> THEN r[g]._id = <<>>
                       ELSE /\ r[g]._id # <<>>
                            /\ r[g]._id[1] <= docs[j].published_year[1]
                            /\ docs[j].published_year[1] < r[g]._id[1] + 10}) = 1
            /\ \A j \in 1..Len(docs) : docs[j].published_year = <<1987>> =>
                   \E g \in 1..Len(r) :
                       /\ r[g]._id = <<1980>>
                       /\ r[g].count >= Occurrences(docs, docs[j])
            /\ SumCounts(r) = Len(docs)
            /\ \A g \in 1..(Len(r) - 1) :
                   IF r[g]._id = <<>> THEN r[g + 1]._id # <<>>
                   ELSE r[g + 1]._id # <<>> /\ r[g]._id[1] < r[g + 1]._id[1]

\* A collection with books of 1980 and 1987 and none of the 1990s: both
\* are counted in 1980 and there is no bucket 1990.
C8_Witness ==
    /\ logged.label = "13"
    /\ \E j \in 1..Len(docs) : docs[j].published_year = <<1987>>
    /\ \E j \in 1..Len(docs) : docs[j].published_year = <<1980>>
    /\ \A j \in 1..Len(docs) : docs[j].published_year # <<1990>>
    /\ \E g \in 1..Len(logged.value) :
           logged.value[g]._id = <<1980>> /\ logged.value[g].count >= 2
    /\ \A g \in 1..Len(logged.value) : logged.value[g]._id # <<1990>>

KeyCount(ix, key) == Cardinality({i \in 1..Len(ix) : ix[i].key = key})
HasIndex(ix, name, key) == \E i \in 1..Len(ix) : ix[i] = [name |-> name, key |-> key]

\* The run started with both indexes of the script in place, as an
\* earlier run leaves them.
CreatedBefore ==
    /\ HasIndex(indexes0, "title_1", <<[field |-> "title", dir |-> 1]>>)
    /\ HasIndex(indexes0, "author_1_published_year_1",
                <<[field |-> "author", dir |-> 1],
                  [field |-> "published_year", dir |-> 1]>>)

\* C9: index creation is idempotent.  No two indexes of the collection
\* ever have the same key or name; createIndex is rejected only on an
\* index the script did not create (one on title under another name); a
\* run that finds both indexes of the script in place is not rejected by
\* createIndex and leaves the indexes as they are; and whenever steps 14
\* and 15 have completed, in a first or a later run, there is exactly one
\* index on (title) and exactly one on (author, published_year), after
\* the indexes the run started with.
C9_IndexIdempotent ==
    /\ \A i \in 1..Len(indexes) : \A j \in 1..Len(indexes) :
           i # j => indexes[i].key # indexes[j].key /\ indexes[i].name # indexes[j].name
    /\ caught \notin {"none", "network"} =>
           \E i \in 1..Len(indexes0) :
               /\ indexes0[i].key = <<[field |-> "title", dir |-> 1]>>
               /\ indexes0[i].name # "title_1"
    /\ CreatedBefore =>
           /\ indexes = indexes0
           /\ caught \in {"none", "network"}
           /\ pc = "indexTitle" => ENABLED IndexTitle
           /\ pc = "indexAuthorYear" => ENABLED IndexAuthorYear
    /\ (pc = "explain" \/ (pc \in {"close", "done"} /\ failedAt \in {"none", "explain"})) =>
           /\ KeyCount(indexes, <<[field |-> "title", dir |-> 1]>>) = 1
           /\ KeyCount(indexes, <<[field |-> "author", dir |-> 1],
                                  [field |-> "published_year", dir |-> 1]>>) = 1
           /\ SubSeq(indexes, 1, Len(indexes0)) = indexes0
           /\ Len(indexes) = Len(indexes0)
                + (1 - KeyCount(indexes0, <<[field |-> "title", dir |-> 1]>>))
                + (1 - KeyCount(indexes0, <<[field |-> "author", dir |-> 1],
                                            [field |-> "published_year", dir |-> 1]>>))

\* A second run has completed on the three indexes it started with.
C9_Witness ==
    /\ run = 2
    /\ pc = "done"
    /\ caught = "none"
    /\ CreatedBefore
    /\ Len(indexes) = 3

C10_NotRejected ==
    /\ failedAt \in {"updateOne", "deleteOne"} => caught = "network"
    /\ pc = "updateOne" => ENABLED UpdatePrice
    /\ pc = "deleteOne" => ENABLED DeleteBook
    /\ logged.label = "4" /\ ~HasTitle(docs, "1984") => logged.value = <<>>

\* C10: without a document titled "1984", respectively "Moby Dick", the
\* update and the delete are not rejected for it; the step leaves the
\* collection as it is, the run goes on with the same next call as after a
\* match, and the delete step prints its success line.
C10_NotFoundIsSuccess ==
    /\ []C10_NotRejected
    /\ [][pc = "updateOne" /\ ~HasTitle(docs, "1984") =>
            /\ docs' = docs
            /\ caught' = "none" => pc' = "findOne"]_vars
    /\ [][pc = "deleteOne" /\ ~HasTitle(docs, "Moby Dick") =>
            /\ docs' = docs
            /\ caught' = "none" =>
                 /\ pc' = "findInStock"
                 /\ logged' = Result("5", "Deleted 'Moby Dick' successfully")]_vars

\* The delete step has printed its success line in a collection that never
\* held either title, and the run has gone on to the end.
C10_Witness ==
    /\ pc = "done"
    /\ caught = "none"
    /\ Len(docs0) > 0
    /\ ~HasTitle(docs0, "1984")
    /\ ~HasTitle(docs0, "Moby Dick")
    /\ docs = docs0
    /\ Len(issued) = Len(ProgramOrder) + 1

====
